---- MODULE Spec2Model ----
(***************************************************************************)
(* tls_client/exceptions.py: the exception taxonomy and ErrorClassifier.   *)
(* Python values are modelled as records: a str s is [str |-> s], None is  *)
(* [none |-> TRUE], a response object is [status_code |-> n], an exception *)
(* is [kind, message, response, request_payload].                          *)
(***************************************************************************)
EXTENDS Integers, Sequences, FiniteSets, TLC

VARIABLES error_message, response, request_payload, exc, variant, again, pc

vars == <<error_message, response, request_payload, exc, variant, again, pc>>

\* ---------------------------------------------------------------- values

None == [none |-> TRUE]

PyStr(s) == [str |-> s]

IsStr(v) == "str" \in DOMAIN v

\* Python truthiness of the values that occur: None and "" are falsy, a
\* non-empty str and a plain object are truthy.
Truthy(v) == v # None /\ v # PyStr("")

\* hasattr(obj, name)
hasattr(obj, name) == name \in DOMAIN obj

\* Mutant of TLSClientException: the stored message is prefixed with the
\* kind's name.
TLSClientException_KindInMessage(kind, message, resp, payload) ==
    [kind |-> kind, message |-> PyStr(kind \o ": " \o message.str),
     response |-> resp, request_payload |-> payload]

\* TLSClientException.__init__, shared by every subclass: the three
\* arguments are stored as given.
TLSClientException(kind, message, resp, payload) ==
    [kind |-> kind, message |-> message, response |-> resp,
     request_payload |-> payload]

\* ------------------------------------------------------------- str.lower

UpperCase == "ABCDEFGHIJKLMNOPQRSTUVWXYZ"

LowerCase == "abcdefghijklmnopqrstuvwxyz"

CharAt(s, i) == SubSeq(s, i, i)

\* str.lower / str.upper on one character: the ASCII letters change, every
\* other character is kept.
LowerTable ==
    [c \in {CharAt(UpperCase, i) : i \in 1..Len(UpperCase)} |->
        CharAt(LowerCase, CHOOSE i \in 1..Len(UpperCase) : CharAt(UpperCase, i) = c)]

UpperTable ==
    [c \in {CharAt(LowerCase, i) : i \in 1..Len(LowerCase)} |->
        CharAt(UpperCase, CHOOSE i \in 1..Len(LowerCase) : CharAt(LowerCase, i) = c)]

LowerChar(c) == IF c \in DOMAIN LowerTable THEN LowerTable[c] ELSE c

UpperChar(c) == IF c \in DOMAIN UpperTable THEN UpperTable[c] ELSE c

RECURSIVE lower(_)
lower(s) ==
    IF s = "" THEN "" ELSE LowerChar(CharAt(s, 1)) \o lower(SubSeq(s, 2, Len(s)))

RECURSIVE upper(_)
upper(s) ==
    IF s = "" THEN "" ELSE UpperChar(CharAt(s, 1)) \o upper(SubSeq(s, 2, Len(s)))

\* ------------------------------------------------------------- re.search

\* Mutant of re_compile: the pattern is taken as a plain substring.
re_compile_Literal(pattern) == <<pattern>>

\* The table's patterns use one regular-expression operator only, ".*"
\* (any run of characters other than a line break); every other character
\* of every pattern is a literal.  re_compile splits a pattern into its
\* literal parts.
RECURSIVE re_compile(_)
re_compile(pattern) ==
    IF \E k \in 1..(Len(pattern) - 1) : SubSeq(pattern, k, k + 1) = ".*"
    THEN LET k == CHOOSE k \in 1..(Len(pattern) - 1) :
                    /\ SubSeq(pattern, k, k + 1) = ".*"
                    /\ \A h \in 1..(k - 1) : SubSeq(pattern, h, h + 1) # ".*"
         IN  <<SubSeq(pattern, 1, k - 1)>> \o re_compile(SubSeq(pattern, k + 2, Len(pattern)))
    ELSE <<pattern>>

LiteralAt(lit, s, i) ==
    /\ i + Len(lit) - 1 <= Len(s)
    /\ SubSeq(s, i, i + Len(lit) - 1) = lit

NoLineBreak(s, from, to) == \A h \in from..to : CharAt(s, h) # "\n"

\* parts[k..] match s starting exactly at position i
RECURSIVE MatchHere(_, _, _, _)
MatchHere(parts, k, s, i) ==
    /\ LiteralAt(parts[k], s, i)
    /\ \/ k = Len(parts)
       \/ \E j \in (i + Len(parts[k]))..(Len(s) + 1) :
            /\ NoLineBreak(s, i + Len(parts[k]), j - 1)
            /\ MatchHere(parts, k + 1, s, j)

\* The characters of s, by position: the search tries a pattern only where
\* its first character stands.
Index(s) == [i \in 1..Len(s) |-> CharAt(s, i)]

\* re.search(pattern, s) is not None: an unanchored match anywhere in s
\* (idx is Index(s)).
re_search_compiled(parts, s, idx) ==
    IF parts[1] = ""
    THEN \E i \in 1..(Len(s) + 1) : MatchHere(parts, 1, s, i)
    ELSE LET first == CharAt(parts[1], 1)
         IN  \E i \in 1..Len(s) : idx[i] = first /\ MatchHere(parts, 1, s, i)

re_search(pattern, s) == re_search_compiled(re_compile(pattern), s, Index(s))

\* ------------------------------------------------------- ErrorClassifier

\* ErrorClassifier.ERROR_PATTERNS, a dict: iteration is in insertion order.
ERROR_PATTERNS ==
    <<
      [exception_class |-> "ConnectTimeout",
       patterns |-> <<"connect timeout",
                    "connection timeout",
                    "dial tcp.*i/o timeout">>],
      [exception_class |-> "Timeout",
       patterns |-> <<"context deadline exceeded",
                    "operation timed out",
                    "i/o timeout",
                    "timeout">>],
      [exception_class |-> "ReadTimeout",
       patterns |-> <<"read timeout",
                    "TLS handshake timeout">>],
      [exception_class |-> "SSLError",
       patterns |-> <<"certificate",
                    "x509",
                    "tls",
                    "ssl",
                    "handshake failure",
                    "certificate verify failed">>],
      [exception_class |-> "ProxyAuthenticationRequired",
       patterns |-> <<"407",
                    "proxy authentication required",
                    "proxy auth">>],
      [exception_class |-> "ProxyConnectionError",
       patterns |-> <<"proxy connection failed",
                    "unable to connect to proxy",
                    "proxy refused connection",
                    "SOCKS5 proxy">>],
      [exception_class |-> "InvalidProxyURL",
       patterns |-> <<"invalid proxy url",
                    "malformed proxy url">>],
      [exception_class |-> "ConnectionError",
       patterns |-> <<"connection refused",
                    "connection reset",
                    "connection aborted",
                    "broken pipe",
                    "network is unreachable",
                    "no route to host",
                    "connection closed",
                    "EOF",
                    "dial tcp",
                    "no such host",
                    "cannot connect",
                    "connection failed">>],
      [exception_class |-> "InvalidURL",
       patterns |-> <<"invalid url",
                    "malformed url",
                    "no host",
                    "invalid host">>],
      [exception_class |-> "MissingSchema",
       patterns |-> <<"no schema",
                    "missing schema",
                    "invalid scheme">>],
      [exception_class |-> "ContentDecodingError",
       patterns |-> <<"decode error",
                    "decompression error",
                    "invalid encoding",
                    "gzip: invalid header">>],
      [exception_class |-> "ChunkedEncodingError",
       patterns |-> <<"chunked encoding error",
                    "invalid chunk">>],
      [exception_class |-> "TooManyRedirects",
       patterns |-> <<"max redirects",
                    "too many redirects",
                    "redirect loop">>]
    >>
\* The re module compiles each pattern once and caches it.
COMPILED ==
    [g \in 1..Len(ERROR_PATTERNS) |->
        [p \in 1..Len(ERROR_PATTERNS[g].patterns) |->
            re_compile(ERROR_PATTERNS[g].patterns[p])]]

GroupMatches(g, s, idx) ==
    \E p \in 1..Len(ERROR_PATTERNS[g].patterns) : re_search_compiled(COMPILED[g][p], s, idx)

\* Mutant of FirstMatchFrom: the loops do not return at the first match, and
\* the last matching group wins.
RECURSIVE LastMatchFrom(_, _, _)
LastMatchFrom(g, s, idx) ==
    IF g > Len(ERROR_PATTERNS) THEN 0
    ELSE LET later == LastMatchFrom(g + 1, s, idx)
         IN  IF later # 0 THEN later
             ELSE IF GroupMatches(g, s, idx) THEN g
             ELSE 0

\* The nested for loop of classify_error from group g on: the index of the
\* first group, in table order, one of whose patterns is found in s; 0 when
\* the loops end without returning.
RECURSIVE FirstMatchFrom(_, _, _)
FirstMatchFrom(g, s, idx) ==
    IF g > Len(ERROR_PATTERNS) THEN 0
    ELSE IF GroupMatches(g, s, idx) THEN g
    ELSE FirstMatchFrom(g + 1, s, idx)

FirstMatch(s) == FirstMatchFrom(1, s, Index(s))

\* Mutant of StatusFallback: the kinds of 403 and 502 are exchanged.
StatusFallback_Swapped(message, resp, payload) ==
    IF Truthy(resp) /\ hasattr(resp, "status_code") /\ resp.status_code = 407
    THEN TLSClientException("HTTPError", message, resp, payload)
    ELSE IF Truthy(resp) /\ hasattr(resp, "status_code") /\ resp.status_code = 403
    THEN TLSClientException("ProxyDenied", message, resp, payload)
    ELSE IF Truthy(resp) /\ hasattr(resp, "status_code") /\ resp.status_code = 502
    THEN TLSClientException("ProxyFlagged", message, resp, payload)
    ELSE TLSClientException("TLSClientException", message, resp, payload)

\* Mutant of StatusFallback: any other status code of a present response
\* yields HTTPError.
StatusFallback_AnyStatus(message, resp, payload) ==
    IF Truthy(resp) /\ hasattr(resp, "status_code") /\ resp.status_code = 403
    THEN TLSClientException("ProxyFlagged", message, resp, payload)
    ELSE IF Truthy(resp) /\ hasattr(resp, "status_code") /\ resp.status_code = 502
    THEN TLSClientException("ProxyDenied", message, resp, payload)
    ELSE IF Truthy(resp) /\ hasattr(resp, "status_code")
    THEN TLSClientException("HTTPError", message, resp, payload)
    ELSE TLSClientException("TLSClientException", message, resp, payload)

\* The status-code fallback after the loops.
StatusFallback(message, resp, payload) ==
    IF Truthy(resp) /\ hasattr(resp, "status_code") /\ resp.status_code = 407
    THEN TLSClientException("HTTPError", message, resp, payload)
    ELSE IF Truthy(resp) /\ hasattr(resp, "status_code") /\ resp.status_code = 403
    THEN TLSClientException("ProxyFlagged", message, resp, payload)
    ELSE IF Truthy(resp) /\ hasattr(resp, "status_code") /\ resp.status_code = 502
    THEN TLSClientException("ProxyDenied", message, resp, payload)
    ELSE TLSClientException("TLSClientException", message, resp, payload)

\* Mutant of classify_error: only a None message gets the placeholder
\* ("is None" in place of "not").
classify_error_NoneOnly(message, resp, payload) ==
    IF message = None
    THEN TLSClientException("TLSClientException", PyStr("Unknown error"), resp, payload)
    ELSE LET error_lower == lower(message.str)
             g == FirstMatch(error_lower)
         IN  IF g # 0
             THEN TLSClientException(ERROR_PATTERNS[g].exception_class, message, resp, payload)
             ELSE StatusFallback(message, resp, payload)

\* Mutant of classify_error: the patterns are searched in the message as
\* given, not in its lower-cased copy.
classify_error_CaseSensitive(message, resp, payload) ==
    IF ~Truthy(message)
    THEN TLSClientException("TLSClientException", PyStr("Unknown error"), resp, payload)
    ELSE LET g == FirstMatch(message.str)
         IN  IF g # 0
             THEN TLSClientException(ERROR_PATTERNS[g].exception_class, message, resp, payload)
             ELSE StatusFallback(message, resp, payload)

\* Mutant of classify_error: the exception is built from the lower-cased
\* copy of the message.
classify_error_StoresLower(message, resp, payload) ==
    IF ~Truthy(message)
    THEN TLSClientException("TLSClientException", PyStr("Unknown error"), resp, payload)
    ELSE LET error_lower == lower(message.str)
             g == FirstMatch(error_lower)
         IN  IF g # 0
             THEN TLSClientException(ERROR_PATTERNS[g].exception_class, PyStr(error_lower), resp, payload)
             ELSE StatusFallback(PyStr(error_lower), resp, payload)

\* ErrorClassifier.classify_error
classify_error(message, resp, payload) ==
    IF ~Truthy(message)
    THEN TLSClientException("TLSClientException", PyStr("Unknown error"), resp, payload)
    ELSE LET error_lower == lower(message.str)
             g == FirstMatch(error_lower)
         IN  IF g # 0
             THEN TLSClientException(ERROR_PATTERNS[g].exception_class, message, resp, payload)
             ELSE StatusFallback(message, resp, payload)

\* ---------------------------------------------------------------- inputs

MaxFrags == 2

Fragments ==
    { "connect timeout", "dial tcp 10.0.0.1:443: ", "dial tcp\n", "i/o timeout",
      "read timeout", "Ssl", "407", "proxy connection failed", "invalid proxy url",
      "unexpected EOF", "no host", "no schema", "decode error", "invalid chunk",
      "redirect loop", "some unmapped failure" }

RECURSIVE Concats(_)
Concats(n) ==
    IF n = 0 THEN {""}
    ELSE Concats(n - 1) \cup {a \o b : a \in Concats(n - 1), b \in Fragments}

Messages == {None} \cup {PyStr(s) : s \in Concats(MaxFrags)}

StatusCodes == {200, 403, 407, 502}

Responses == {None} \cup {[status_code |-> c] : c \in StatusCodes}

Payloads == {None, [data |-> "payload"]}

\* ------------------------------------------------------------ the caller

Init ==
    /\ error_message \in Messages
    /\ response \in Responses
    /\ request_payload \in Payloads
    /\ exc = None
    /\ variant = None
    /\ again = None
    /\ pc = "start"

\* exc = ErrorClassifier.classify_error(error_message, response, request_payload)
Classify ==
    /\ pc = "start"
    /\ exc' = classify_error(error_message, response, request_payload)
    /\ pc' = "returned"
    /\ UNCHANGED <<error_message, response, request_payload, variant, again>>

\* The caller classifies the message field of the exception it got, with
\* the same response and payload.
Reclassify ==
    /\ pc = "returned"
    /\ variant' = exc.message
    /\ again' = classify_error(exc.message, response, request_payload)
    /\ pc' = "reclassified"
    /\ UNCHANGED <<error_message, response, request_payload, exc>>

\* Messages that differ from m in letter case only.  Two messages differ in
\* letter case only exactly when they have the same lower(), so comparing
\* every message with its lower() and upper() compares every such pair.
CaseVariants(m) == {PyStr(lower(m.str)), PyStr(upper(m.str))}

\* The caller classifies a message that differs from error_message in
\* letter case only, with the same response and payload.
Recase ==
    /\ pc = "returned"
    /\ IsStr(error_message)
    /\ \E v \in CaseVariants(error_message) :
          /\ variant' = v
          /\ again' = classify_error(v, response, request_payload)
    /\ pc' = "recased"
    /\ UNCHANGED <<error_message, response, request_payload, exc>>

Next == Classify \/ Reclassify

Spec == Init /\ [][Next]_vars

NextCase == Classify \/ Recase

SpecCase == Init /\ [][NextCase]_vars

\* ------------------------------------------------------------ properties

\* lit occurs in s as a plain substring
Contains(s, lit) ==
    \E i \in 1..(Len(s) - Len(lit) + 1) : SubSeq(s, i, i + Len(lit) - 1) = lit

\* The rule groups that have a pattern found in the lower-cased message.
MatchingGroups(m) ==
    LET s == lower(m.str)
        idx == Index(s)
    IN  {g \in 1..Len(ERROR_PATTERNS) : GroupMatches(g, s, idx)}

\* No pattern of the table is found in the lower-cased message.
NoPatternFound(m) ==
    LET s == lower(m.str)
        idx == Index(s)
    IN  \A g \in 1..Len(ERROR_PATTERNS) : ~GroupMatches(g, s, idx)

Earliest(S) == CHOOSE g \in S : \A h \in S : g <= h

\* The priority order of the rule groups as the specification lists it.
KindOrder ==
    <<"ConnectTimeout", "Timeout", "ReadTimeout", "SSLError",
      "ProxyAuthenticationRequired", "ProxyConnectionError", "InvalidProxyURL",
      "ConnectionError", "InvalidURL", "MissingSchema", "ContentDecodingError",
      "ChunkedEncodingError", "TooManyRedirects">>

RootKind == "TLSClientException"

HasStatus(resp, codes) ==
    resp # None /\ "status_code" \in DOMAIN resp /\ resp.status_code \in codes

FallbackCodes == {407, 403, 502}

\* C1: for a non-empty message in which some pattern of the table is found,
\* the returned kind is the kind of the earliest group, in the listed order,
\* that has a matching pattern, whatever the response is.
C1_FirstMatchWins ==
    (pc = "returned" /\ Truthy(error_message)) =>
        LET M == MatchingGroups(error_message)
        IN  M # {} => exc.kind = KindOrder[Earliest(M)]

\* A message matching two groups, classified with a 407 response present.
C1_Witness ==
    /\ pc = "returned"
    /\ error_message = PyStr("407proxy connection failed")
    /\ response = [status_code |-> 407]
    /\ MatchingGroups(error_message) = {5, 6, 8}
    /\ exc.kind = "ProxyAuthenticationRequired"

\* C2: an empty or null message yields the root kind with the message
\* "Unknown error", whatever the response is.
C2_EmptyIsUnknownError ==
    (pc = "returned" /\ (error_message = None \/ error_message = PyStr(""))) =>
        /\ exc.kind = RootKind
        /\ exc.message = PyStr("Unknown error")

C2_Witness ==
    /\ pc = "returned"
    /\ error_message = PyStr("")
    /\ response = [status_code |-> 403]
    /\ exc.kind = RootKind
    /\ exc.message = PyStr("Unknown error")

\* C3: for a non-empty message in which no pattern is found and a response
\* that is present, status 403 yields ProxyFlagged, 502 ProxyDenied and 407
\* HTTPError.
C3_StatusCodeFallback ==
    (/\ pc = "returned"
     /\ Truthy(error_message)
     /\ HasStatus(response, FallbackCodes)
     /\ NoPatternFound(error_message)) =>
        exc.kind = CASE response.status_code = 403 -> "ProxyFlagged"
                     [] response.status_code = 502 -> "ProxyDenied"
                     [] response.status_code = 407 -> "HTTPError"

C3_Witness ==
    /\ pc = "returned"
    /\ error_message = PyStr("some unmapped failure")
    /\ response = [status_code |-> 502]
    /\ exc.kind = "ProxyDenied"

\* C4: for a non-empty message in which no pattern is found, with the
\* response absent or its status code none of 407, 403, 502, the result is
\* the root kind carrying the message verbatim.
C4_DefaultIsRoot ==
    (/\ pc = "returned"
     /\ Truthy(error_message)
     /\ ~HasStatus(response, FallbackCodes)
     /\ NoPatternFound(error_message)) =>
        /\ exc.kind = RootKind
        /\ exc.message = error_message

C4_Witness ==
    /\ pc = "returned"
    /\ error_message = PyStr("some unmapped failure")
    /\ response = [status_code |-> 200]
    /\ exc.kind = RootKind
    /\ exc.message = PyStr("some unmapped failure")

\* b occurs in s after an occurrence of a, with no line break between the
\* end of that a and the start of that b
FollowsOnLine(s, a, b) ==
    \E i \in 1..(Len(s) - Len(a) + 1) :
        /\ SubSeq(s, i, i + Len(a) - 1) = a
        /\ \E j \in (i + Len(a))..(Len(s) - Len(b) + 1) :
              /\ SubSeq(s, j, j + Len(b) - 1) = b
              /\ ~Contains(SubSeq(s, i + Len(a), j - 1), "\n")

\* C5 as stated: a message containing "dial tcp" and "i/o timeout", in any
\* relative position and with any text between them, is a ConnectTimeout.
C5_DialTcpAnyPosition ==
    (/\ pc = "returned"
     /\ IsStr(error_message)
     /\ Contains(error_message.str, "dial tcp")
     /\ Contains(error_message.str, "i/o timeout")) =>
        exc.kind = "ConnectTimeout"

\* C5 as amended: a message in which "dial tcp" is followed, later and with
\* no line break in between, by "i/o timeout" is a ConnectTimeout.
C5_DialTcpThenIoTimeout ==
    (/\ pc = "returned"
     /\ IsStr(error_message)
     /\ FollowsOnLine(error_message.str, "dial tcp", "i/o timeout")) =>
        exc.kind = "ConnectTimeout"

C5_Witness ==
    /\ pc = "returned"
    /\ error_message = PyStr("dial tcp 10.0.0.1:443: i/o timeout")
    /\ exc.kind = "ConnectTimeout"

\* C6: a message that contains "EOF" and matches no pattern of a group
\* before ConnectionError is classified as ConnectionError.
C6_EofIsConnectionError ==
    (/\ pc = "returned"
     /\ IsStr(error_message)
     /\ Contains(error_message.str, "EOF")
     /\ ~\E g \in MatchingGroups(error_message) :
            \E h \in (g + 1)..Len(KindOrder) : KindOrder[h] = "ConnectionError") =>
        exc.kind = "ConnectionError"

\* C7 as stated: for every message, empty and null included, and every
\* response, classifying the returned exception's message again with the
\* same response yields the same kind.
C7_Idempotent ==
    pc = "reclassified" => again.kind = exc.kind

\* C7 as amended: the same, for every non-empty message, and for an empty or
\* null message when the response is absent or its status code is none of
\* 407, 403, 502.
C7_IdempotentOffFallback ==
    (/\ pc = "reclassified"
     /\ Truthy(error_message) \/ ~HasStatus(response, FallbackCodes)) =>
        again.kind = exc.kind

C7_Witness ==
    /\ pc = "reclassified"
    /\ error_message = PyStr("some unmapped failure")
    /\ response = [status_code |-> 403]
    /\ exc.kind = "ProxyFlagged"
    /\ variant = error_message
    /\ again.kind = "ProxyFlagged"

\* C8: two messages that differ only in letter case get the same kind with
\* the same response; "SSL", "ssl" and "Ssl" are each an SSLError.
C8_CaseInsensitive ==
    /\ pc = "recased" =>
          /\ again.kind = exc.kind
          /\ variant.str \in {"SSL", "ssl", "Ssl"} => again.kind = "SSLError"
    /\ (pc = "returned" /\ error_message \in {PyStr("SSL"), PyStr("ssl"), PyStr("Ssl")}) =>
          exc.kind = "SSLError"

C8_Witness ==
    /\ pc = "recased"
    /\ error_message = PyStr("Ssl")
    /\ variant = PyStr("SSL")
    /\ lower(variant.str) = lower(error_message.str)
    /\ exc.kind = "SSLError"
    /\ again.kind = "SSLError"

\* C9: for a non-empty message the result carries the message unchanged and
\* the very response and request payload that were passed in.
C9_InputsPreserved ==
    (pc = "returned" /\ Truthy(error_message)) =>
        /\ exc.message = error_message
        /\ exc.response = response
        /\ exc.request_payload = request_payload

C9_Witness ==
    /\ pc = "returned"
    /\ error_message = PyStr("unexpected EOFSsl")
    /\ response = [status_code |-> 502]
    /\ request_payload # None
    /\ exc = [kind |-> "SSLError", message |-> error_message,
              response |-> response, request_payload |-> request_payload]

\* C10: ReadTimeout is tested before the generic Timeout, so a message
\* containing "read timeout" (and no ConnectTimeout pattern) is a
\* ReadTimeout, not a Timeout.
C10_ReadTimeoutBeforeTimeout ==
    (/\ pc = "returned"
     /\ IsStr(error_message)
     /\ Contains(lower(error_message.str), "read timeout")
     /\ 1 \notin MatchingGroups(error_message)) =>
        exc.kind = "ReadTimeout"

====
